---- MODULE Spec2Model ----
(***************************************************************************)
(* CPU scheduling simulator (src/src/scheduler.rs): the five engines       *)
(* fifo, sjf, stcf, rr and mlfq as one state machine.  A behaviour is one  *)
(* call of one engine on one workload; every loop iteration of the engine  *)
(* is one step.                                                            *)
(*                                                                         *)
(* Process fields are f32 in the source.  All values are small integers,   *)
(* which f32 represents exactly up to 2^24; from there on x + 1.0 = x.     *)
(* F32Limit stands for 2^24, scaled down so that the saturated states are  *)
(* reachable.  The MLFQ tick counter is an i32, scaled the same way.       *)
(*                                                                         *)
(* binary_heap_plus::BinaryHeap is an external crate: pop/peek return an   *)
(* element that is greatest under the comparator; the order among elements *)
(* the comparator calls equal is not documented, so it is a choice here.   *)
(* Every process carries its index in the workload as the field id, which  *)
(* the source does not have: it only tells equal records apart.            *)
(***************************************************************************)
EXTENDS Integers, Sequences, FiniteSets

VARIABLES engine, workload, pc, curr_time, i, wkld, todo, heap, in_progress,
          mlfq, curr_queue, counter, complete, p,
          after_boost, at_select

vars == <<engine, workload, pc, curr_time, i, wkld, todo, heap, in_progress,
          mlfq, curr_queue, counter, complete, p, after_boost, at_select>>

\* ---------------------------------------------------------------- bounds
MaxProcs == 3
MaxArrival == 2
MaxDur == 3
MaxDur2 == 8
MaxDur1 == 14
MaxLate == 9

Max2(a, b) == IF a >= b THEN a ELSE b

\* the largest clock value a run on positive durations can reach
MaxClock ==
    MaxArrival + Max2(MaxProcs * MaxDur, Max2(2 * MaxDur2, MaxDur1 + MaxDur))

\* stands for 2^24, from where on f32 addition of 1.0 is absorbed
F32Limit == MaxClock + 2
\* stand for i32::MAX and i32::MIN
I32Max == F32Limit + 1
I32Min == 0 - F32Limit - 2

\* ------------------------------------------------------------- constants
BOOSTTIME == 10
NumLevels == 4

Engines == {"fifo", "sjf", "stcf", "rr", "mlfq"}

\* ------------------------------------------------------------- processes
NewProcess(id, arrival, duration, first_run, completion) ==
    [id |-> id, arrival |-> arrival, duration |-> duration,
     first_run |-> first_run, completion |-> completion,
     remaining_time |-> duration]

NoProcess == NewProcess(0, 0, 0, 0, 0)

IsSorted(w) == \A k \in 1..(Len(w) - 1) : w[k].arrival <= w[k + 1].arrival

\* what read_workload hands to an engine: Process::new(arrival, duration, 0, 0)
\* per line, sorted by arrival
WorkloadsOf(n, minDur, maxDur) ==
    LET Lines == [1..n -> (0..MaxArrival) \X (minDur..maxDur)]
        Mk(l) == [k \in 1..n |-> NewProcess(k, l[k][1], l[k][2], 0, 0)]
    IN  {w \in {Mk(l) : l \in Lines} : IsSorted(w)}

\* a long process at 0 and a short one that arrives while it runs
LateWorkloads ==
    {<<NewProcess(1, 0, MaxDur1, 0, 0), NewProcess(2, a, d, 0, 0)>> :
        a \in (MaxArrival + 1)..MaxLate, d \in 1..MaxDur}

\* up to MaxProcs processes of positive duration up to MaxDur, one or two
\* processes of longer duration or of duration 0, and the late arrivals
Workloads ==
    UNION {WorkloadsOf(n, 1, MaxDur) : n \in 0..MaxProcs}
      \cup WorkloadsOf(2, 0, MaxDur2) \cup WorkloadsOf(1, 0, MaxDur1)
      \cup LateWorkloads

\* ------------------------------------------------------- f32 / i32 steps
FInc(x) == IF x >= F32Limit THEN x ELSE x + 1
FDec(x) == IF x <= 0 - F32Limit THEN x ELSE x - 1

\* counter += 1 on an i32: wraps in a release build, panics in a debug build
IncI32(c) ==
    IF c < I32Max THEN {[ok |-> TRUE, v |-> c + 1]}
    ELSE {[ok |-> TRUE, v |-> I32Min], [ok |-> FALSE, v |-> c]}

\* ------------------------------------------------------------ containers
Range(s) == {s[k] : k \in DOMAIN s}

Reverse(s) == [k \in 1..Len(s) |-> s[Len(s) + 1 - k]]

\* the orders in which a heap can hand out elements of equal key
OrdersOf(S) ==
    {s \in [1..Cardinality(S) -> S] : \A a, b \in DOMAIN s : a # b => s[a] # s[b]}

\* heap built with |p1, p2| p2.arrival.partial_cmp(&p1.arrival): top = least arrival
MinArrival(S) == {q \in S : \A r \in S : q.arrival <= r.arrival}

\* mutant of MinDuration: the heap hands out any element
MinDuration_Any(S) == S

\* heap built with |p1, p2| p2.duration.partial_cmp(&p1.duration): top = least duration
MinDuration(S) == {q \in S : \A r \in S : q.duration <= r.duration}

\* while !todo.is_empty() && curr_time == todo.peek().unwrap().arrival { todo.pop() ... }
TodoAdmit(td, t) ==
    IF td # {} /\ (\E q \in MinArrival(td) : q.arrival = t)
    THEN {q \in td : q.arrival = t}
    ELSE {}

Unset(q) == [q EXCEPT !.first_run = 0 - 1]

\* mutant of SetFirstRun: the sentinel test is dropped, every tick overwrites first_run
SetFirstRun_Overwrite(q, t) == [q EXCEPT !.first_run = t]

SetFirstRun(q, t) == IF q.first_run = 0 - 1 THEN [q EXCEPT !.first_run = t] ELSE q

\* the level queues and the service cursor as they are at a point inside one
\* iteration of mlfq's loop (after_boost: after the boosting mechanism,
\* at_select: after admission, when the process is popped)
Snapshot(m, cq) == [queues |-> m, cursor |-> cq]

NoSnapshot == Snapshot([l \in 0..(NumLevels - 1) |-> <<>>], 0)

\* --------------------------------------------------------------- initial
Init ==
    /\ engine \in Engines
    /\ workload \in Workloads
    /\ pc = "start"
    /\ curr_time = 0
    /\ i = 1
    /\ wkld = <<>>
    /\ todo = {}
    /\ heap = {}
    /\ in_progress = <<>>
    /\ mlfq = [l \in 0..(NumLevels - 1) |-> <<>>]
    /\ curr_queue = 0
    /\ counter = 0
    /\ complete = <<>>
    /\ p = NoProcess
    /\ after_boost = NoSnapshot
    /\ at_select = NoSnapshot

\* ------------------------------------------------------------------ fifo
FifoStart ==
    /\ engine = "fifo" /\ pc = "start"
    /\ IF workload = <<>>
       THEN pc' = "panic" /\ UNCHANGED curr_time
       ELSE pc' = "loop" /\ curr_time' = workload[1].arrival
    /\ UNCHANGED <<after_boost, at_select>>
    /\ UNCHANGED <<engine, workload, i, wkld, todo, heap, in_progress, mlfq,
                   curr_queue, counter, complete, p>>

\* mutant of FifoRecord: the record starts at its arrival instead of the clock
FifoRecord_FromArrival(process, t) ==
    NewProcess(process.id, process.arrival, process.duration, process.arrival,
               process.arrival + process.duration)

FifoRecord(process, t) ==
    NewProcess(process.id, process.arrival, process.duration, t, t + process.duration)

FifoStep ==
    /\ engine = "fifo" /\ pc = "loop"
    /\ p' = FifoRecord(workload[i], curr_time)
    /\ curr_time' = curr_time + workload[i].duration
    /\ complete' = Append(complete, p')
    /\ i' = i + 1
    /\ pc' = IF i' > Len(workload) THEN "done" ELSE "loop"
    /\ UNCHANGED <<after_boost, at_select>>
    /\ UNCHANGED <<engine, workload, wkld, todo, heap, in_progress, mlfq,
                   curr_queue, counter>>

\* ------------------------------------------------------------------- sjf
SjfStart ==
    /\ engine = "sjf" /\ pc = "start"
    /\ IF workload = <<>>
       THEN pc' = "panic" /\ UNCHANGED <<curr_time, wkld, heap>>
       ELSE /\ pc' = "loop"
            /\ curr_time' = workload[1].arrival
            /\ heap' = {Head(workload)}
            /\ wkld' = Tail(workload)
    /\ UNCHANGED <<after_boost, at_select>>
    /\ UNCHANGED <<engine, workload, i, todo, in_progress, mlfq, curr_queue,
                   counter, complete, p>>

RECURSIVE SjfAdmitCount(_, _)
\* while !wkld.is_empty() && curr_time >= wkld.get(0).unwrap().arrival
SjfAdmitCount(w, t) ==
    IF w # <<>> /\ t >= Head(w).arrival THEN 1 + SjfAdmitCount(Tail(w), t) ELSE 0

SjfStep ==
    /\ engine = "sjf" /\ pc = "loop"
    /\ \E q \in MinDuration(heap) :
         LET t == curr_time + q.duration
             n == SjfAdmitCount(wkld, t)
         IN  /\ p' = [q EXCEPT !.first_run = curr_time, !.completion = t]
             /\ curr_time' = t
             /\ complete' = Append(complete, p')
             /\ heap' = (heap \ {q}) \cup {wkld[k] : k \in 1..n}
             /\ wkld' = SubSeq(wkld, n + 1, Len(wkld))
             /\ pc' = IF heap' = {} THEN "done" ELSE "loop"
    /\ UNCHANGED <<after_boost, at_select>>
    /\ UNCHANGED <<engine, workload, i, todo, in_progress, mlfq, curr_queue,
                   counter>>

\* ------------------------------------------------------------------ stcf
StcfStart ==
    /\ engine = "stcf" /\ pc = "start"
    /\ IF workload = <<>>
       THEN pc' = "panic" /\ UNCHANGED <<curr_time, todo, heap>>
       ELSE \E init \in MinArrival(Range(workload)) :
              /\ pc' = "loop"
              /\ curr_time' = init.arrival
              /\ heap' = {Unset(init)}
              /\ todo' = Range(workload) \ {init}
    /\ UNCHANGED <<after_boost, at_select>>
    /\ UNCHANGED <<engine, workload, i, wkld, in_progress, mlfq, curr_queue,
                   counter, complete, p>>

StcfStep ==
    /\ engine = "stcf" /\ pc = "loop"
    /\ LET admitted == TodoAdmit(todo, curr_time)
           ready == heap \cup {Unset(q) : q \in admitted}
       IN  \E q \in MinDuration(ready) :
             LET q1 == SetFirstRun(q, curr_time)
                 q2 == [q1 EXCEPT !.duration = FDec(q1.duration)]
                 t == FInc(curr_time)
             IN  /\ todo' = todo \ admitted
                 /\ curr_time' = t
                 /\ IF q2.duration = 0
                    THEN /\ p' = [q2 EXCEPT !.completion = t]
                         /\ complete' = Append(complete, p')
                         /\ heap' = ready \ {q}
                    ELSE /\ p' = q2
                         /\ complete' = complete
                         /\ heap' = (ready \ {q}) \cup {q2}
                 /\ pc' = IF heap' = {} THEN "done" ELSE "loop"
    /\ UNCHANGED <<after_boost, at_select>>
    /\ UNCHANGED <<engine, workload, i, wkld, in_progress, mlfq, curr_queue,
                   counter>>

\* -------------------------------------------------------------------- rr
RrStart ==
    /\ engine = "rr" /\ pc = "start"
    /\ IF workload = <<>>
       THEN pc' = "panic" /\ UNCHANGED <<curr_time, todo, in_progress>>
       ELSE \E init \in MinArrival(Range(workload)) :
              /\ pc' = "loop"
              /\ curr_time' = init.arrival
              /\ in_progress' = <<Unset(init)>>
              /\ todo' = Range(workload) \ {init}
    /\ UNCHANGED <<after_boost, at_select>>
    /\ UNCHANGED <<engine, workload, i, wkld, heap, mlfq, curr_queue, counter,
                   complete, p>>

\* mutant of RrAdmit: the arrivals are pushed to the front
RrAdmit_Front(queue, order) == [k \in DOMAIN order |-> Unset(order[k])] \o queue

\* in_progress.push_back of every process popped from todo, in pop order
RrAdmit(queue, order) == queue \o [k \in DOMAIN order |-> Unset(order[k])]

\* mutant of RrRequeue: push_front instead of push_back
RrRequeue_Front(queue, q) == <<q>> \o queue

\* where rr puts the process that did not finish in its tick
RrRequeue(queue, q) == Append(queue, q)

RrStep ==
    /\ engine = "rr" /\ pc = "loop"
    /\ LET admitted == TodoAdmit(todo, curr_time)
       IN  \E order \in OrdersOf(admitted) :
             LET queue == RrAdmit(Tail(in_progress), order)
                 q1 == SetFirstRun(Head(in_progress), curr_time)
                 q2 == [q1 EXCEPT !.remaining_time = FDec(q1.remaining_time)]
                 t == FInc(curr_time)
             IN  /\ todo' = todo \ admitted
                 /\ curr_time' = t
                 /\ IF q2.remaining_time = 0
                    THEN /\ p' = [q2 EXCEPT !.completion = t]
                         /\ complete' = Append(complete, p')
                         /\ in_progress' = queue
                    ELSE /\ p' = q2
                         /\ complete' = complete
                         /\ in_progress' = RrRequeue(queue, q2)
                 /\ pc' = IF in_progress' = <<>> THEN "done" ELSE "loop"
    /\ UNCHANGED <<after_boost, at_select>>
    /\ UNCHANGED <<engine, workload, i, wkld, heap, mlfq, curr_queue, counter>>

\* ------------------------------------------------------------------ mlfq
MlfqStart ==
    /\ engine = "mlfq" /\ pc = "start"
    /\ IF workload = <<>>
       THEN pc' = "panic" /\ UNCHANGED <<curr_time, todo, mlfq, counter, curr_queue>>
       ELSE \E init \in MinArrival(Range(workload)) :
              /\ pc' = "loop"
              /\ curr_time' = init.arrival
              /\ todo' = Range(workload) \ {init}
              /\ counter' = 1
              /\ mlfq' = [mlfq EXCEPT ![0] = <<Unset(init)>>]
              /\ curr_queue' = 0
    /\ UNCHANGED <<after_boost, at_select>>
    /\ UNCHANGED <<engine, workload, i, wkld, heap, in_progress, complete, p>>

\* mutant of Boost: the levels are drained with pop_back
Boost_PopBack(m, c) ==
    IF c % BOOSTTIME = 0
    THEN [l \in 0..(NumLevels - 1) |->
            IF l = 0 THEN m[0] \o Reverse(m[1]) \o Reverse(m[2]) \o Reverse(m[3])
            ELSE <<>>]
    ELSE m

\* mutant of Boost: the boosting mechanism is missing
Boost_Never(m, c) == m

\* boosting mechanism: every level below the first is drained into the first
Boost(m, c) ==
    IF c % BOOSTTIME = 0
    THEN [l \in 0..(NumLevels - 1) |->
            IF l = 0 THEN m[0] \o m[1] \o m[2] \o m[3] ELSE <<>>]
    ELSE m

\* mutant of BoostCursor: the boost forgets curr_queue = 0
BoostCursor_Keep(cq, c) == cq

BoostCursor(cq, c) == IF c % BOOSTTIME = 0 THEN 0 ELSE cq

\* mutant of MlfqAdmit: push_back instead of push_front
MlfqAdmit_Back(m, order) ==
    [m EXCEPT ![0] = m[0] \o [k \in DOMAIN order |-> Unset(order[k])]]

\* each admitted process is pushed to the front of level 0
MlfqAdmit(m, order) ==
    [m EXCEPT ![0] = Reverse([k \in DOMAIN order |-> Unset(order[k])]) \o m[0]]

\* mutant of RequeueLevel: the `changed` test is missing, a level is skipped
RequeueLevel_Skip(cq, changed) == IF cq + 1 >= NumLevels THEN cq ELSE cq + 1

\* mutant of RequeueLevel: the process goes back to the level it ran at
RequeueLevel_Same(cq, changed) == IF changed THEN cq - 1 ELSE cq

\* level that receives the process that did not finish in its tick
RequeueLevel(cq, changed) ==
    IF changed \/ cq + 1 >= NumLevels THEN cq ELSE cq + 1

MlfqStep ==
    /\ engine = "mlfq" /\ pc = "loop"
    /\ LET admitted == TodoAdmit(todo, curr_time)
       IN  \E order \in OrdersOf(admitted) :
             LET m1 == MlfqAdmit(Boost(mlfq, counter), order)
                 cq1 == IF admitted # {} THEN 0 ELSE BoostCursor(curr_queue, counter)
             IN  /\ todo' = todo \ admitted
                 /\ after_boost' = Snapshot(Boost(mlfq, counter),
                                            BoostCursor(curr_queue, counter))
                 /\ at_select' = Snapshot(m1, cq1)
                 /\ IF m1[cq1] = <<>>
                    THEN \* mlfq[curr_queue].pop_front().unwrap() on an empty level
                         /\ pc' = "panic"
                         /\ mlfq' = m1
                         /\ curr_queue' = cq1
                         /\ UNCHANGED <<curr_time, counter, complete, p>>
                    ELSE LET q1 == SetFirstRun(Head(m1[cq1]), curr_time)
                             q2 == [q1 EXCEPT !.remaining_time = FDec(q1.remaining_time)]
                             t == FInc(curr_time)
                             m2 == [m1 EXCEPT ![cq1] = Tail(m1[cq1])]
                             changed == m2[cq1] = <<>> /\ cq1 + 1 < NumLevels
                             cq2 == IF changed THEN (cq1 + 1) % NumLevels ELSE cq1
                             z == RequeueLevel(cq2, changed)
                         IN  /\ curr_time' = t
                             /\ curr_queue' = cq2
                             /\ IF q2.remaining_time = 0
                                THEN /\ p' = [q2 EXCEPT !.completion = t]
                                     /\ complete' = Append(complete, p')
                                     /\ mlfq' = m2
                                ELSE /\ p' = q2
                                     /\ complete' = complete
                                     /\ mlfq' = [m2 EXCEPT ![z] = Append(m2[z], q2)]
                             /\ \E inc \in IncI32(counter) :
                                  /\ counter' = inc.v
                                  /\ pc' = IF ~inc.ok THEN "panic"
                                           ELSE IF Len(complete') # Len(workload)
                                                THEN "loop" ELSE "done"
    /\ UNCHANGED <<engine, workload, i, wkld, heap, in_progress>>

\* --------------------------------------------------------- specification
Next ==
    \/ FifoStart \/ FifoStep
    \/ SjfStart \/ SjfStep
    \/ StcfStart \/ StcfStep
    \/ RrStart \/ RrStep
    \/ MlfqStart \/ MlfqStep

Spec == Init /\ [][Next]_vars

\* the engine is a sequential loop: an iteration that can run does run
FairSpec == Spec /\ WF_vars(Next)

TypeOK ==
    /\ engine \in Engines
    /\ pc \in {"start", "loop", "done", "panic"}
    /\ curr_queue \in 0..(NumLevels - 1)

\* ------------------------------------------------------------ properties
\* the workload read from the lines "arrival duration" given as pairs
Wl(pairs) == [k \in 1..Len(pairs) |-> NewProcess(k, pairs[k][1], pairs[k][2], 0, 0)]

NonEmpty == workload # <<>>

PositiveDurations == \A k \in DOMAIN workload : workload[k].duration >= 1

RECURSIVE SumDur(_, _)
SumDur(w, n) == IF n = 0 THEN 0 ELSE w[n].duration + SumDur(w, n - 1)

\* the CPU never idles: every process arrives no later than the moment the
\* work that arrived before it is used up
NoIdleGap ==
    \A k \in 2..Len(workload) :
        workload[k].arrival <= workload[1].arrival + SumDur(workload, k - 1)

CompletedIds == {complete[k].id : k \in DOMAIN complete}

\* <<first_run, completion>> of every output record, in output order
Times == [k \in DOMAIN complete |-> <<complete[k].first_run, complete[k].completion>>]

\* C1: MLFQ on a non-empty workload with positive durations and no idle gap
\* never pops an empty level (the pop at the service cursor never panics).
C1_MlfqPopSucceeds ==
    (engine = "mlfq" /\ NonEmpty /\ PositiveDurations /\ NoIdleGap) => pc # "panic"

\* C2: when an engine returns on a non-empty workload with positive
\* durations, every input process is in the returned list exactly once.
C2_EveryProcessOnce ==
    (NonEmpty /\ PositiveDurations /\ pc = "done") =>
        /\ Len(complete) = Len(workload)
        /\ CompletedIds = DOMAIN workload

\* C3: on a non-empty workload with positive durations every output record
\* has arrival <= first_run <= completion.
C3_ArrivalFirstRunCompletion ==
    (NonEmpty /\ PositiveDurations) =>
        \A k \in DOMAIN complete :
            /\ complete[k].arrival <= complete[k].first_run
            /\ complete[k].first_run <= complete[k].completion

\* C4: on a workload with positive durations every process SJF selects has
\* the least duration among the processes that have arrived (arrival <=
\* clock) and are not completed.
C4_SjfSelectsShortest ==
    [][(engine = "sjf" /\ pc = "loop" /\ PositiveDurations) =>
          \A k \in DOMAIN workload :
              (k \notin CompletedIds /\ workload[k].arrival <= curr_time)
                  => p'.duration <= workload[k].duration]_vars

W33 == Wl(<<<<0, 3>>, <<0, 3>>>>)

\* C5 as stated: RR on [(0,3),(0,3)] returns two records with first_run = 0.
C5_RrBothFirstRunZero ==
    (engine = "rr" /\ workload = W33 /\ pc = "done") =>
        \A k \in DOMAIN complete : complete[k].first_run = 0

\* C5 amended: RR on [(0,3),(0,3)] returns two records, the first with
\* first_run = 0 and the second with first_run = 1.
C5_RrFirstRunZeroThenOne ==
    (engine = "rr" /\ workload = W33 /\ pc = "done") =>
        /\ Len(complete) = 2
        /\ complete[1].first_run = 0
        /\ complete[2].first_run = 1

C5_Witness == engine = "rr" /\ workload = W33 /\ pc = "done" /\ Len(complete) = 2

\* C6: an engine called with an empty workload does not panic.
C6_EmptyWorkloadNoPanic == workload = <<>> => pc # "panic"

\* C7: on every non-empty workload the engine eventually returns.
C7_Terminates == NonEmpty => <>(pc = "done")

W84 == Wl(<<<<0, 8>>, <<1, 4>>>>)

\* C8: the process STCF executes in a tick has the least remaining service
\* time among the arrived, uncompleted processes; on [(0,8),(1,4)] the short
\* job gets (first_run, completion) = (1,5) and the long job (0,12).
C8_StcfLeastRemaining ==
    /\ [][(engine = "stcf" /\ pc = "loop") =>
             LET arrived == heap \cup {q \in todo : q.arrival <= curr_time}
             IN  \E r \in arrived :
                   /\ r.id = p'.id
                   /\ \A q \in arrived : r.duration <= q.duration]_vars
    /\ []((engine = "stcf" /\ workload = W84 /\ pc = "done") =>
             /\ [k \in DOMAIN complete |-> complete[k].id] = <<2, 1>>
             /\ Times = <<<<1, 5>>, <<0, 12>>>>)

\* a shorter job has arrived while a longer one is in progress, and has run
C8_Witness ==
    /\ engine = "stcf" /\ pc = "loop"
    /\ \E q \in heap : q.id # p.id /\ q.first_run # 0 - 1 /\ q.arrival < p.arrival
                       /\ q.duration > p.duration

\* C9: RR never executes the same process in two consecutive ticks when the
\* ready queue holds another process at the second selection; on
\* [(0,3),(0,3)] the completions are 5 and 6.
C9_RrAlternates ==
    /\ [][(engine = "rr" /\ pc = "loop" /\ p.id # 0 /\ p'.id = p.id)
             => Len(in_progress) = 1]_vars
    /\ []((engine = "rr" /\ workload = W33 /\ pc = "done") =>
             [k \in DOMAIN complete |-> complete[k].completion] = <<5, 6>>)

\* the process that ran last waits at the back, behind another process
C9_Witness ==
    /\ engine = "rr" /\ pc = "loop" /\ p.id # 0
    /\ Len(in_progress) >= 2
    /\ in_progress[Len(in_progress)].id = p.id

W53 == Wl(<<<<0, 5>>, <<1, 3>>>>)

\* C10: FIFO emits the processes in input order; the first starts at its
\* arrival, each next one starts at the completion of the one before, and
\* completion = first_run + duration; [(0,5),(1,3)] gives (0,5) then (5,8).
C10_FifoChain ==
    (engine = "fifo" /\ NonEmpty) =>
        /\ \A k \in DOMAIN complete :
             /\ complete[k].id = k
             /\ complete[k].arrival = workload[k].arrival
             /\ complete[k].duration = workload[k].duration
             /\ complete[k].first_run =
                    IF k = 1 THEN workload[1].arrival ELSE complete[k - 1].completion
             /\ complete[k].completion = complete[k].first_run + complete[k].duration
        /\ pc = "done" => Len(complete) = Len(workload)
        /\ (workload = W53 /\ pc = "done") => Times = <<<<0, 5>>, <<5, 8>>>>

C10_Witness ==
    engine = "fifo" /\ workload = W53 /\ pc = "done" /\ Len(complete) = 2

\* one process of positive duration
SingleProcess == Len(workload) = 1 /\ workload[1].duration >= 1

\* C11: on a single-process workload (a, d) with d >= 1 no engine fails, and
\* the returned list is one record with first_run = a and completion = a + d.
C11_SingleProcess ==
    SingleProcess =>
        /\ pc # "panic"
        /\ Len(complete) <= 1
        /\ pc = "done" =>
             /\ Len(complete) = 1
             /\ complete[1].first_run = workload[1].arrival
             /\ complete[1].completion = workload[1].arrival + workload[1].duration

\* each engine has returned a single process longer than the boost interval
C11_Witness ==
    /\ SingleProcess /\ workload[1].duration > BOOSTTIME /\ workload[1].arrival > 0
    /\ engine = "mlfq" /\ pc = "done" /\ Len(complete) = 1

Min2(a, b) == IF a <= b THEN a ELSE b

\* the level a lone process is served at in the tick with counter c
LoneLevel(c) ==
    IF c % BOOSTTIME = 0 THEN 0
    ELSE IF c < BOOSTTIME THEN Min2(c - 1, NumLevels - 1)
    ELSE Min2(c % BOOSTTIME, NumLevels - 1)

\* C12: a lone MLFQ process is served at levels 0, 1, 2, 3 in its first four
\* ticks and at level 3 afterwards; in the tick whose counter is a multiple of
\* BOOSTTIME it has been moved to level 0 and is served there, and the
\* one-level-per-tick demotion starts again.
C12_LoneProcessLevels ==
    (engine = "mlfq" /\ SingleProcess /\ pc \in {"loop", "done", "panic"} /\ counter > 1) =>
        /\ pc # "panic"
        /\ at_select.cursor = LoneLevel(counter - 1)
        /\ \A l \in 0..(NumLevels - 1) :
             Len(at_select.queues[l]) = (IF l = LoneLevel(counter - 1) THEN 1 ELSE 0)
        /\ ((counter - 1) % BOOSTTIME = 0) => Len(after_boost.queues[0]) = 1

\* after the boost the process has come down to the bottom level again
C12_Witness ==
    /\ engine = "mlfq" /\ SingleProcess /\ pc = "loop"
    /\ counter = BOOSTTIME + NumLevels /\ at_select.cursor = NumLevels - 1

\* time units executed for an output record: its duration for fifo and sjf,
\* the ticks taken off its counter for stcf (duration) and rr, mlfq (remaining_time)
Executed(rec) ==
    IF engine \in {"fifo", "sjf"} THEN rec.duration
    ELSE IF engine = "stcf" THEN workload[rec.id].duration - rec.duration
    ELSE rec.duration - rec.remaining_time

RECURSIVE SumExecuted(_, _)
SumExecuted(out, n) == IF n = 0 THEN 0 ELSE Executed(out[n]) + SumExecuted(out, n - 1)

\* C13: when an engine returns on a non-empty workload with positive
\* durations, the time executed for the returned records adds up to the sum
\* of the input durations.
C13_Conservation ==
    (NonEmpty /\ PositiveDurations /\ pc = "done") =>
        SumExecuted(complete, Len(complete)) = SumDur(workload, Len(workload))

\* C14: every record is appended to the output with the clock of that moment
\* as its completion, and the completions along the output never decrease.
C14_CompletionOrder ==
    /\ [][Len(complete') > Len(complete) =>
             /\ Len(complete') = Len(complete) + 1
             /\ SubSeq(complete', 1, Len(complete)) = complete
             /\ complete'[Len(complete')].completion = curr_time']_vars
    /\ [](\A k \in 1..(Len(complete) - 1) :
             complete[k].completion <= complete[k + 1].completion)

\* two records completed at different times are in the output
C14_Witness ==
    /\ Len(complete) >= 2
    /\ complete[1].completion < complete[Len(complete)].completion
    /\ complete[1].arrival + complete[1].duration
           > complete[Len(complete)].arrival + complete[Len(complete)].duration

\* C15: STCF and RR return only when no process is left to admit: on a
\* workload with positive durations and no idle gap (a process may arrive
\* in the very tick the ready set runs empty) every process is in the output.
C15_StopsOnlyWhenAllAdmitted ==
    (engine \in {"stcf", "rr"} /\ NonEmpty /\ PositiveDurations /\ NoIdleGap
        /\ pc = "done") =>
        /\ todo = {}
        /\ CompletedIds = DOMAIN workload

Levels == 0..(NumLevels - 1)

\* an iteration of mlfq's loop in which the pop succeeded
MlfqTick == engine = "mlfq" /\ pc = "loop" /\ at_select'.queues[at_select'.cursor] # <<>>

\* C16: a process that ran a tick at level c without completing is appended to
\* the back of level min(c + 1, 3) and to no other level, whether or not the
\* cursor advanced in that tick.
C16_RequeueOneLevelDown ==
    [][(MlfqTick /\ Len(complete') = Len(complete)) =>
          LET c == at_select'.cursor
              z == Min2(c + 1, NumLevels - 1)
              popped == [at_select'.queues EXCEPT ![c] = Tail(@)]
          IN  /\ Head(at_select'.queues[c]).id = p'.id
              /\ mlfq' = [popped EXCEPT ![z] = Append(@, p')]]_vars

\* a process came down one level while others stayed behind at its old level
C16_Witness ==
    /\ engine = "mlfq" /\ pc = "loop" /\ p.id # 0
    /\ at_select.cursor < NumLevels - 1
    /\ curr_queue = at_select.cursor
    /\ Len(at_select.queues[curr_queue]) >= 2
    /\ mlfq[curr_queue + 1] # <<>>
    /\ mlfq[curr_queue + 1][Len(mlfq[curr_queue + 1])] = p

\* C17: in a tick whose counter is a multiple of BOOSTTIME the boost empties
\* levels 1, 2, 3, leaves level 0 followed by levels 1, 2, 3 in level 0 and
\* sets the cursor to 0; in every other tick it changes nothing.
C17_BoostEffect ==
    [][(engine = "mlfq" /\ pc = "loop") =>
          IF counter % BOOSTTIME = 0
          THEN /\ after_boost'.cursor = 0
               /\ \A l \in 1..(NumLevels - 1) : after_boost'.queues[l] = <<>>
               /\ after_boost'.queues[0] = mlfq[0] \o mlfq[1] \o mlfq[2] \o mlfq[3]
          ELSE /\ after_boost'.cursor = curr_queue
               /\ after_boost'.queues = mlfq]_vars

\* the tick with counter BOOSTTIME brought two processes up to level 0
C17_Witness ==
    /\ engine = "mlfq" /\ pc = "loop" /\ counter = BOOSTTIME + 1
    /\ Len(after_boost.queues[0]) >= 2
    /\ after_boost.cursor = 0

\* C18 as stated: when processes arrive at the clock while level 0 holds
\* older processes, every arriving process executes in that tick.
C18_EveryArrivalRunsAtOnce ==
    [][(MlfqTick /\ after_boost'.queues[0] # <<>>) =>
          \A q \in todo \ todo' : p'.id = q.id /\ p'.first_run = q.arrival]_vars

\* C18 amended: every process whose arrival equals the clock is put at the
\* front of level 0, ahead of the processes already there, the cursor is set
\* to 0, and the process put there last executes in that tick with
\* first_run = arrival.
C18_ArrivalsGoFirst ==
    [][(engine = "mlfq" /\ pc = "loop") =>
          LET admitted == todo \ todo'
              n == Cardinality(admitted)
              level0 == at_select'.queues[0]
          IN  /\ admitted = {q \in todo : q.arrival = curr_time}
              /\ Len(level0) = n + Len(after_boost'.queues[0])
              /\ {level0[k].id : k \in 1..n} = {q.id : q \in admitted}
              /\ SubSeq(level0, n + 1, Len(level0)) = after_boost'.queues[0]
              /\ \A l \in 1..(NumLevels - 1) :
                     at_select'.queues[l] = after_boost'.queues[l]
              /\ n > 0 =>
                   /\ at_select'.cursor = 0
                   /\ p'.id = level0[1].id
                   /\ p'.arrival = curr_time
                   /\ p'.first_run = p'.arrival]_vars

\* a process that arrived after the start ran in its arrival tick while an
\* older process was waiting in level 0
C18_Witness ==
    /\ engine = "mlfq" /\ pc = "loop" /\ p.id # 0
    /\ p.arrival > workload[1].arrival
    /\ p.first_run = p.arrival /\ curr_time = p.arrival + 1
    /\ after_boost.queues[0] # <<>>
    /\ at_select.queues[0][1].id = p.id

\* C19: RR appends the processes whose arrival equals the clock behind the
\* processes that were waiting, and the process that ran and did not finish
\* behind all of them.
C19_RrAdmitBeforeRequeue ==
    [][(engine = "rr" /\ pc = "loop") =>
          LET admitted == todo \ todo'
              n == Cardinality(admitted)
              waiting == Tail(in_progress)
              w == Len(waiting)
          IN  /\ admitted = {q \in todo : q.arrival = curr_time}
              /\ p'.id = Head(in_progress).id
              /\ SubSeq(in_progress', 1, w) = waiting
              /\ {in_progress'[k].id : k \in (w + 1)..(w + n)} = {q.id : q \in admitted}
              /\ IF Len(complete') = Len(complete)
                 THEN /\ Len(in_progress') = w + n + 1
                      /\ in_progress'[w + n + 1] = p'
                 ELSE Len(in_progress') = w + n]_vars

\* the process that ran is queued behind one admitted in the same tick, which
\* is behind one that was waiting before
C19_Witness ==
    /\ engine = "rr" /\ pc = "loop" /\ p.id # 0
    /\ Len(in_progress) >= 3
    /\ in_progress[Len(in_progress)] = p
    /\ in_progress[Len(in_progress) - 1].arrival = curr_time - 1
    /\ in_progress[Len(in_progress) - 1].first_run = 0 - 1
    /\ in_progress[1].arrival < curr_time - 1

\* C20: the cursor is a level index, and every level above the cursor (of
\* lower index) is empty, between the ticks and at every selection.
C20_StrictPriority ==
    engine = "mlfq" =>
        /\ curr_queue \in Levels
        /\ \A l \in Levels : l < curr_queue => mlfq[l] = <<>>
        /\ at_select.cursor \in Levels
        /\ \A l \in Levels : l < at_select.cursor => at_select.queues[l] = <<>>

\* a process was taken from level 2 while another one waited there
C20_Witness ==
    /\ engine = "mlfq" /\ pc = "loop"
    /\ at_select.cursor = 2
    /\ Len(at_select.queues[2]) >= 2

====
